---- MODULE Spec2Model ----
(***************************************************************************)
(* Model of the moq-dev-rs interop test client                             *)
(* (src/builds/moq-dev-rs/src/main.rs).                                    *)
(*                                                                         *)
(* main() is one async procedure; it is cut at its await points.  The      *)
(* orchestration of a scenario (the future run_test_inner returns) is a    *)
(* second position, `fut`, driven under the deadline of run_test.  Time is *)
(* the number of milliseconds since run_test armed its deadline; the relay *)
(* (connect latency and outcome, announcement, track closure) is the       *)
(* environment and is drawn from small sets.                               *)
(***************************************************************************)
EXTENDS Integers, Sequences, FiniteSets, TLC

(***************************************************************************)
(* Bounds of the environment: latencies are multiples of LatencyStep ms.   *)
(***************************************************************************)
LatencyStep == 600
MaxLatencySteps == 4

Never == -1
Latencies == {k * LatencyStep : k \in 0..MaxLatencySteps}
LatenciesOrNever == Latencies \cup {Never}

(***************************************************************************)
(* The registry and the skip policy.                                       *)
(***************************************************************************)
TESTS ==
    << "setup-only", "announce-only", "publish-namespace-done",
       "subscribe-error", "announce-subscribe", "subscribe-before-announce" >>

SKIPPED_TESTS ==
    << << "subscribe-error", "moq-lite API requires announcement before subscribe" >>,
       << "subscribe-before-announce", "moq-lite API requires announcement before subscribe" >> >>

TEST_NAMESPACE == "moq-test/interop"
TEST_TRACK == "test-track"

ContainsAnything(seq, x) == TRUE

Contains(seq, x) == \E k \in 1..Len(seq) : seq[k] = x

\* SKIPPED_TESTS.iter().find(|(name, _)| name == test_name): first match
SkipIndex(name) ==
    LET hits == {k \in 1..Len(SKIPPED_TESTS) : SKIPPED_TESTS[k][1] = name}
    IN  IF hits = {} THEN 0 ELSE CHOOSE k \in hits : \A m \in hits : k <= m

IsSkippedNever(name) == FALSE

IsSkipped(name) == SkipIndex(name) # 0
SkipReason(name) == SKIPPED_TESTS[SkipIndex(name)][2]

(***************************************************************************)
(* Command line (struct Cli).  An Option<String> is a sequence of length   *)
(* at most one.  The relay string either parses as a URL or does not.      *)
(***************************************************************************)
UnregisteredName == "no-such-test"
GoodRelay == "https://localhost:4443"
BadRelay == "not a url"

TestArgs == {<<>>} \cup {<<TESTS[k]>> : k \in 1..Len(TESTS)} \cup {<<UnregisteredName>>}

CliSpace ==
    [relay : {GoodRelay, BadRelay}, test : TestArgs, list : BOOLEAN,
     tls_disable_verify : BOOLEAN, verbose : BOOLEAN]

\* url::Url::parse(&cli.relay)
UrlParseOk(relay) == relay = GoodRelay

(***************************************************************************)
(* Error values: an anyhow context, a number it formats, and the cause     *)
(* below it ("{:#}" prints context and cause joined by ": ").              *)
(***************************************************************************)
Msg(context, ms, cause) == [context |-> context, ms |-> ms, cause |-> cause]
NoMsg == Msg("", 0, "")

NoResult == [set |-> FALSE, ok |-> FALSE, msg |-> NoMsg]
OkResult == [set |-> TRUE, ok |-> TRUE, msg |-> NoMsg]
ErrResult(m) == [set |-> TRUE, ok |-> FALSE, msg |-> m]

(***************************************************************************)
(* Output lines.                                                           *)
(***************************************************************************)
Line(kind, num, name, msg) == [kind |-> kind, num |-> num, name |-> name, msg |-> msg]

ListLinesReversed ==
    [k \in 1..Len(TESTS) |-> Line("list", 0, TESTS[Len(TESTS) + 1 - k], NoMsg)]

ListLines == [k \in 1..Len(TESTS) |-> Line("list", 0, TESTS[k], NoMsg)]

HeaderLines(relay, n) ==
    << Line("version", 14, "", NoMsg),
       Line("comment", 0, "moq-dev-rs-client v0.1.0", NoMsg),
       Line("comment", 0, "Relay", Msg(relay, 0, "")),
       Line("plan", n, "", NoMsg) >>

\* print_diagnostics: a default Diagnostics has no connection ids to print.
\* The number printed on the duration line is the variable duration_ms.
print_diagnostics ==
    << Line("yaml", 0, "---", NoMsg),
       Line("yaml", 0, "duration_ms", NoMsg),
       Line("yaml", 0, "...", NoMsg) >>

print_failure_diagnostics(message) ==
    << Line("yaml", 0, "---", NoMsg),
       Line("yaml", 0, "duration_ms", NoMsg),
       Line("yaml", 0, "message", message),
       Line("yaml", 0, "...", NoMsg) >>

(***************************************************************************)
(* run_test: the timeout per scenario; run_test_inner: the dispatch.       *)
(***************************************************************************)
TimeoutWrongFor(name) ==
    CASE name = "setup-only" -> 2000
      [] name = "announce-only" -> 2000
      [] name = "publish-namespace-done" -> 2000
      [] name = "announce-subscribe" -> 2000
      [] OTHER -> 5000

TimeoutFor(name) ==
    CASE name = "setup-only" -> 2000
      [] name = "announce-only" -> 2000
      [] name = "publish-namespace-done" -> 2000
      [] name = "announce-subscribe" -> 3000
      [] OTHER -> 5000

\* the fixed waits of the scenario bodies, in ms
LongAnnounceSleep == 500 + 1500
ANNOUNCE_ONLY_SLEEP == 500
PND_SLEEP == 500
PND_DONE_SLEEP == 200
NoGrace == 300 - 300
AS_GRACE == 300
ANNOUNCED_WAIT == 1500
LongTrackWait == 1000 + 1000
TRACK_WAIT == 1000

\* the await a scenario body first suspends at; "bail" for the default arm
FirstAwaitMissingArm(name) ==
    CASE name = "setup-only" -> "setup_connect"
      [] name = "announce-only" -> "ao_connect"
      [] name = "announce-subscribe" -> "as_pub_connect"
      [] OTHER -> "bail"

FirstAwait(name) ==
    CASE name = "setup-only" -> "setup_connect"
      [] name = "announce-only" -> "ao_connect"
      [] name = "publish-namespace-done" -> "pnd_connect"
      [] name = "announce-subscribe" -> "as_pub_connect"
      [] OTHER -> "bail"

\* what a scenario body does before its first await
Prologue(name) ==
    CASE name = "announce-only" -> << "publish_broadcast" >>
      [] name = "publish-namespace-done" -> << "publish_broadcast" >>
      [] name = "announce-subscribe" -> << "publish_broadcast", "create_track" >>
      [] OTHER -> << >>

Awaiting ==
    { "setup_connect", "ao_connect", "ao_sleep", "pnd_connect", "pnd_sleep500",
      "pnd_sleep200", "as_pub_connect", "as_sleep300", "as_sub_connect",
      "as_announced", "as_track" }

VARIABLES
    cli,          \* the parsed command line
    pc,           \* position of main: start, setup, loop, run_test, exited
    tracing,      \* whether the tracing subscriber was installed
    tests,        \* the selected scenario names
    i,            \* number of loop iterations completed
    all_passed,
    out,          \* standard output, a sequence of lines
    err,          \* standard error, a sequence of messages
    exit_code,    \* Never while the process runs
    timeout_ms,   \* the deadline run_test armed
    elapsed,      \* ms since run_test armed the deadline
    fut,          \* position of the scenario's future
    wake,         \* elapsed time at which the pending await completes, or Never
    pending,      \* what the pending await will yield
    result,       \* what run_test returned to main
    sessions,     \* every session ever opened
    trace,        \* observable steps of the current scenario, with their times
    ann_lat,      \* how long the relay takes to deliver the announcement
    abandoned,    \* numbers of the scenarios whose future the deadline dropped
    duration_ms   \* the duration measured for the last scenario run

vars ==
    << cli, pc, tracing, tests, i, all_passed, out, err, exit_code, timeout_ms,
       elapsed, fut, wake, pending, result, sessions, trace, ann_lat, abandoned,
       duration_ms >>

mainVars == << cli, pc, tracing, tests, i, all_passed, out, err, exit_code, duration_ms >>
futVars ==
    << timeout_ms, elapsed, fut, wake, pending, result, sessions, trace, ann_lat,
       abandoned >>

Init ==
    /\ cli \in CliSpace
    /\ pc = "start"
    /\ tracing = FALSE
    /\ tests = << >>
    /\ i = 0
    /\ all_passed = TRUE
    /\ out = << >>
    /\ err = << >>
    /\ exit_code = Never
    /\ timeout_ms = 0
    /\ elapsed = 0
    /\ fut = "idle"
    /\ wake = Never
    /\ pending = ""
    /\ result = NoResult
    /\ sessions = << >>
    /\ trace = << >>
    /\ ann_lat = Never
    /\ abandoned = {}
    /\ duration_ms = 0

(***************************************************************************)
(* main, up to the loop.                                                   *)
(***************************************************************************)
\* lines 62-67
ListTests ==
    /\ pc = "start"
    /\ cli.list
    /\ out' = out \o ListLines
    /\ exit_code' = 0
    /\ pc' = "exited"
    /\ UNCHANGED << cli, tracing, tests, i, all_passed, err, duration_ms >>
    /\ UNCHANGED futVars

\* lines 69-80, the selector names no registry entry
UnknownTest ==
    /\ pc = "start"
    /\ ~cli.list
    /\ cli.test # << >>
    /\ ~Contains(TESTS, cli.test[1])
    /\ tracing' = cli.verbose
    /\ err' = Append(err, Msg("Unknown test: {}", 0, cli.test[1]))
    /\ exit_code' = 127
    /\ pc' = "exited"
    /\ UNCHANGED << cli, tests, i, all_passed, out, duration_ms >>
    /\ UNCHANGED futVars

\* lines 69-89
PrintHeader ==
    /\ pc = "start"
    /\ ~cli.list
    /\ IF cli.test # << >> THEN Contains(TESTS, cli.test[1]) ELSE TRUE
    /\ tracing' = cli.verbose
    /\ tests' = IF cli.test # << >> THEN << cli.test[1] >> ELSE TESTS
    /\ out' = out \o HeaderLines(cli.relay, Len(tests'))
    /\ pc' = "setup"
    /\ UNCHANGED << cli, i, all_passed, err, exit_code, duration_ms >>
    /\ UNCHANGED futVars

\* lines 91-99; main returning Err ends the process with exit code 1
SetupClient ==
    /\ pc = "setup"
    /\ \E init_ok \in BOOLEAN :
        IF ~UrlParseOk(cli.relay)
        THEN /\ err' = Append(err, Msg("invalid relay URL", 0, cli.relay))
             /\ exit_code' = 1
             /\ pc' = "exited"
        ELSE IF ~init_ok
        THEN /\ err' = Append(err, Msg("failed to init client", 0, ""))
             /\ exit_code' = 1
             /\ pc' = "exited"
        ELSE /\ pc' = "loop"
             /\ UNCHANGED << err, exit_code >>
    /\ all_passed' = TRUE
    /\ UNCHANGED << cli, tracing, tests, i, out, duration_ms >>
    /\ UNCHANGED futVars

(***************************************************************************)
(* Sessions, the trace and the races.                                      *)
(***************************************************************************)
Session(num, role, state) == [num |-> num, role |-> role, state |-> state]
Ev(e, t) == [ev |-> e, at |-> t]
Stamp(evs, t) == [k \in 1..Len(evs) |-> Ev(evs[k], t)]

\* session.close(..) on every session the scenario still holds open
CloseOwn(ss, num) ==
    [k \in 1..Len(ss) |->
        IF ss[k].num = num /\ ss[k].state = "open"
        THEN [ss[k] EXCEPT !.state = "closed"] ELSE ss[k]]

DropNothing(ss, num) == ss

\* the scope of a scenario body ends (return, `?`, bail!, or the future is
\* dropped): session handles it still holds are dropped without close()
DropOwn(ss, num) ==
    [k \in 1..Len(ss) |->
        IF ss[k].num = num /\ ss[k].state = "open"
        THEN [ss[k] EXCEPT !.state = "dropped"] ELSE ss[k]]

\* tokio::time::timeout polls the future until the deadline has elapsed
PollsPastDeadline(w, t) == w # Never

Polls(w, t) == w # Never /\ w <= t

\* the deadline wins when the pending await is not over by then
DeadlineHits(w, t) == w = Never \/ w >= t

\* tokio::select! between an event arriving after `lat` and sleep(dur)
Race(lat, dur) ==
    IF lat = Never \/ lat > dur THEN {"sleep"}
    ELSE IF lat < dur THEN {"event"}
    ELSE {"event", "sleep"}

RaceTime(winner, lat, dur) == IF winner = "sleep" THEN dur ELSE lat

\* a connect call: its latency and its outcome
ConnectChoices ==
    {<<lat, o>> : lat \in Latencies, o \in {"ok", "err"}} \cup {<<Never, "ok">>}

WakeAt(now, lat) == IF lat = Never THEN Never ELSE now + lat

NumFromZero == i

Num == i + 1
Name == tests[i + 1]

(***************************************************************************)
(* The loop of main.                                                       *)
(***************************************************************************)
\* lines 101-108
SkipTest ==
    /\ pc = "loop"
    /\ i < Len(tests)
    /\ IsSkipped(Name)
    /\ out' = Append(out, Line("skip", Num, Name, Msg(SkipReason(Name), 0, "")))
    /\ i' = i + 1
    /\ UNCHANGED << cli, pc, tracing, tests, all_passed, err, exit_code, duration_ms >>
    /\ UNCHANGED futVars

\* lines 101-112, run_test lines 169-177, and the scenario body up to its
\* first await (the connect of every scenario)
StartRunTest ==
    /\ pc = "loop"
    /\ i < Len(tests)
    /\ ~IsSkipped(Name)
    /\ pc' = "run_test"
    /\ timeout_ms' = TimeoutFor(Name)
    /\ elapsed' = 0
    /\ ann_lat' = Never
    /\ IF FirstAwait(Name) = "bail"
       THEN /\ fut' = "ready"
            /\ result' = ErrResult(Msg("unknown test: {}", 0, Name))
            /\ wake' = Never
            /\ pending' = ""
            /\ trace' = << >>
       ELSE \E c \in ConnectChoices :
            /\ fut' = FirstAwait(Name)
            /\ result' = NoResult
            /\ wake' = c[1]
            /\ pending' = c[2]
            /\ trace' = Stamp(Prologue(Name) \o << "connect" >>, 0)
    /\ UNCHANGED << cli, tracing, tests, i, all_passed, out, err, exit_code, duration_ms >>
    /\ UNCHANGED << sessions, abandoned >>

\* run_test lines 177-179: the deadline elapses first, the future is dropped
DeadlineKeepsFuture ==
    /\ fut \in Awaiting
    /\ pc = "run_test"
    /\ DeadlineHits(wake, timeout_ms)
    /\ elapsed' = timeout_ms
    /\ result' = ErrResult(Msg("timeout after {}ms", timeout_ms, "deadline has elapsed"))
    /\ abandoned' = abandoned \cup {Num}
    /\ UNCHANGED << fut, wake, pending, sessions, trace >>
    /\ UNCHANGED << mainVars, timeout_ms, ann_lat >>

Deadline ==
    /\ fut \in Awaiting
    /\ DeadlineHits(wake, timeout_ms)
    /\ elapsed' = timeout_ms
    /\ result' = ErrResult(Msg("timeout after {}ms", timeout_ms, "deadline has elapsed"))
    /\ abandoned' = abandoned \cup {Num}
    /\ fut' = "dropped"
    /\ wake' = Never
    /\ pending' = ""
    /\ sessions' = DropOwn(sessions, Num)
    /\ trace' = trace
    /\ UNCHANGED << mainVars, timeout_ms, ann_lat >>

\* lines 113-125
ReportAbortsOnFailure ==
    /\ pc = "run_test"
    /\ result.set
    /\ duration_ms' = elapsed
    /\ IF result.ok
       THEN /\ out' = Append(out, Line("ok", Num, Name, NoMsg)) \o print_diagnostics
            /\ UNCHANGED << all_passed, exit_code >>
            /\ pc' = "loop"
       ELSE /\ all_passed' = FALSE
            /\ out' = Append(out, Line("not ok", Num, Name, NoMsg))
                         \o print_failure_diagnostics(result.msg)
            /\ exit_code' = 1
            /\ pc' = "exited"
    /\ result' = NoResult
    /\ i' = i + 1
    /\ UNCHANGED << cli, tracing, tests, err >>
    /\ UNCHANGED << timeout_ms, elapsed, fut, wake, pending, sessions, trace, ann_lat, abandoned >>

Report ==
    /\ pc = "run_test"
    /\ result.set
    /\ duration_ms' = elapsed
    /\ IF result.ok
       THEN /\ out' = Append(out, Line("ok", Num, Name, NoMsg)) \o print_diagnostics
            /\ UNCHANGED all_passed
       ELSE /\ all_passed' = FALSE
            /\ out' = Append(out, Line("not ok", Num, Name, NoMsg))
                         \o print_failure_diagnostics(result.msg)
    /\ result' = NoResult
    /\ i' = i + 1
    /\ pc' = "loop"
    /\ UNCHANGED << cli, tracing, tests, err, exit_code >>
    /\ UNCHANGED << timeout_ms, elapsed, fut, wake, pending, sessions, trace, ann_lat, abandoned >>

\* lines 126-133
Finish ==
    /\ pc = "loop"
    /\ i = Len(tests)
    /\ exit_code' = IF ~all_passed THEN 1 ELSE 0
    /\ pc' = "exited"
    /\ UNCHANGED << cli, tracing, tests, i, all_passed, out, err, duration_ms >>
    /\ UNCHANGED futVars

(***************************************************************************)
(* The scenario bodies, one action per resumption of the future.           *)
(***************************************************************************)
Now == wake

\* test_setup_only lines 201-208
SetupConnected ==
    /\ fut = "setup_connect"
    /\ Polls(wake, timeout_ms)
    /\ elapsed' = Now
    /\ IF pending = "ok"
       THEN /\ sessions' = Append(sessions, Session(Num, "session", "closed"))
            /\ trace' = trace \o Stamp(<< "connected", "close" >>, Now)
            /\ result' = OkResult
       ELSE /\ sessions' = sessions
            /\ trace' = trace \o Stamp(<< "connect_failed" >>, Now)
            /\ result' = ErrResult(Msg("failed to connect", 0, "connect error"))
    /\ fut' = "ready"
    /\ wake' = Never
    /\ pending' = ""
    /\ UNCHANGED << mainVars, timeout_ms, ann_lat, abandoned >>

\* test_announce_only lines 222-230
AoConnected ==
    /\ fut = "ao_connect"
    /\ Polls(wake, timeout_ms)
    /\ elapsed' = Now
    /\ IF pending = "ok"
       THEN /\ sessions' = Append(sessions, Session(Num, "session", "open"))
            /\ trace' = trace \o Stamp(<< "connected", "sleep" >>, Now)
            /\ fut' = "ao_sleep"
            /\ wake' = Now + ANNOUNCE_ONLY_SLEEP
            /\ result' = NoResult
       ELSE /\ sessions' = sessions
            /\ trace' = trace \o Stamp(<< "connect_failed", "drop_broadcast" >>, Now)
            /\ fut' = "ready"
            /\ wake' = Never
            /\ result' = ErrResult(Msg("failed to connect", 0, "connect error"))
    /\ pending' = ""
    /\ UNCHANGED << mainVars, timeout_ms, ann_lat, abandoned >>

\* test_announce_only lines 230-235
AoSlept ==
    /\ fut = "ao_sleep"
    /\ Polls(wake, timeout_ms)
    /\ elapsed' = Now
    /\ sessions' = CloseOwn(sessions, Num)
    /\ trace' = trace \o Stamp(<< "close", "drop_broadcast" >>, Now)
    /\ result' = OkResult
    /\ fut' = "ready"
    /\ wake' = Never
    /\ pending' = ""
    /\ UNCHANGED << mainVars, timeout_ms, ann_lat, abandoned >>

\* test_publish_namespace_done lines 247-255
PndConnected ==
    /\ fut = "pnd_connect"
    /\ Polls(wake, timeout_ms)
    /\ elapsed' = Now
    /\ IF pending = "ok"
       THEN /\ sessions' = Append(sessions, Session(Num, "session", "open"))
            /\ trace' = trace \o Stamp(<< "connected", "sleep" >>, Now)
            /\ fut' = "pnd_sleep500"
            /\ wake' = Now + PND_SLEEP
            /\ result' = NoResult
       ELSE /\ sessions' = sessions
            /\ trace' = trace \o Stamp(<< "connect_failed", "drop_broadcast" >>, Now)
            /\ fut' = "ready"
            /\ wake' = Never
            /\ result' = ErrResult(Msg("failed to connect", 0, "connect error"))
    /\ pending' = ""
    /\ UNCHANGED << mainVars, timeout_ms, ann_lat, abandoned >>

\* test_publish_namespace_done lines 255-259
PndSlept500KeepsBroadcast ==
    /\ fut = "pnd_sleep500"
    /\ Polls(wake, timeout_ms)
    /\ elapsed' = Now
    /\ trace' = trace \o Stamp(<< "sleep" >>, Now)
    /\ fut' = "pnd_sleep200"
    /\ wake' = Now + PND_DONE_SLEEP
    /\ UNCHANGED << mainVars, timeout_ms, pending, result, sessions, ann_lat, abandoned >>

PndSlept500 ==
    /\ fut = "pnd_sleep500"
    /\ Polls(wake, timeout_ms)
    /\ elapsed' = Now
    /\ trace' = trace \o Stamp(<< "drop_broadcast", "sleep" >>, Now)
    /\ fut' = "pnd_sleep200"
    /\ wake' = Now + PND_DONE_SLEEP
    /\ UNCHANGED << mainVars, timeout_ms, pending, result, sessions, ann_lat, abandoned >>

\* test_publish_namespace_done lines 259-264
PndSlept200 ==
    /\ fut = "pnd_sleep200"
    /\ Polls(wake, timeout_ms)
    /\ elapsed' = Now
    /\ sessions' = CloseOwn(sessions, Num)
    /\ trace' = trace \o Stamp(<< "close" >>, Now)
    /\ result' = OkResult
    /\ fut' = "ready"
    /\ wake' = Never
    /\ pending' = ""
    /\ UNCHANGED << mainVars, timeout_ms, ann_lat, abandoned >>

\* test_announce_subscribe lines 282-290
AsPubConnected ==
    /\ fut = "as_pub_connect"
    /\ Polls(wake, timeout_ms)
    /\ elapsed' = Now
    /\ IF pending = "ok"
       THEN /\ sessions' = Append(sessions, Session(Num, "publisher", "open"))
            /\ trace' = trace \o Stamp(<< "pub_connected", "sleep" >>, Now)
            /\ fut' = "as_sleep300"
            /\ wake' = Now + AS_GRACE
            /\ result' = NoResult
       ELSE /\ sessions' = sessions
            /\ trace' = trace \o Stamp(<< "connect_failed", "drop_broadcast" >>, Now)
            /\ fut' = "ready"
            /\ wake' = Never
            /\ result' = ErrResult(Msg("publisher failed to connect", 0, "connect error"))
    /\ pending' = ""
    /\ UNCHANGED << mainVars, timeout_ms, ann_lat, abandoned >>

\* test_announce_subscribe lines 290-300
AsSlept300 ==
    /\ fut = "as_sleep300"
    /\ Polls(wake, timeout_ms)
    /\ elapsed' = Now
    /\ \E c \in ConnectChoices :
        /\ wake' = WakeAt(Now, c[1])
        /\ pending' = c[2]
    /\ trace' = trace \o Stamp(<< "sub_connect" >>, Now)
    /\ fut' = "as_sub_connect"
    /\ UNCHANGED << mainVars, timeout_ms, result, sessions, ann_lat, abandoned >>

\* test_announce_subscribe lines 296-305 and 311: the subscriber session opens
\* and the select! on the announcement starts
AsSubConnected ==
    /\ fut = "as_sub_connect"
    /\ Polls(wake, timeout_ms)
    /\ elapsed' = Now
    /\ IF pending = "ok"
       THEN /\ sessions' = Append(sessions, Session(Num, "subscriber", "open"))
            /\ trace' = trace \o Stamp(<< "sub_connected", "wait_announced" >>, Now)
            /\ fut' = "as_announced"
            /\ result' = NoResult
            /\ \E lat \in LatenciesOrNever, what \in {"some", "none", "closed"} :
                \E winner \in Race(lat, ANNOUNCED_WAIT) :
                    /\ ann_lat' = lat
                    /\ wake' = Now + RaceTime(winner, lat, ANNOUNCED_WAIT)
                    /\ pending' = IF winner = "sleep" THEN "sleep" ELSE what
       ELSE /\ sessions' = DropOwn(sessions, Num)
            /\ trace' = trace \o Stamp(<< "connect_failed", "drop_broadcast" >>, Now)
            /\ fut' = "ready"
            /\ wake' = Never
            /\ pending' = ""
            /\ result' = ErrResult(Msg("subscriber failed to connect", 0, "connect error"))
            /\ UNCHANGED ann_lat
    /\ UNCHANGED << mainVars, timeout_ms, abandoned >>

\* test_announce_subscribe lines 304-327: the select! on the announcement
\* completes; on a broadcast the track is subscribed and the second select!
\* starts
AsAnnouncedIgnoresUnannounce ==
    /\ fut = "as_announced"
    /\ Polls(wake, timeout_ms)
    /\ elapsed' = Now
    /\ IF pending \in {"some", "none"}
       THEN /\ trace' = trace \o Stamp(
                   << IF pending = "none" THEN "unannounced" ELSE "announced",
                      "subscribe_track" >>, Now)
            /\ fut' = "as_track"
            /\ result' = NoResult
            /\ sessions' = sessions
            /\ \E lat \in LatenciesOrNever, what \in {"closed_ok", "closed_err"} :
                \E winner \in Race(lat, TRACK_WAIT) :
                    /\ wake' = Now + RaceTime(winner, lat, TRACK_WAIT)
                    /\ pending' = IF winner = "sleep" THEN "sleep" ELSE what
       ELSE /\ trace' = trace \o Stamp(
                   << IF pending = "closed" THEN "consumer_closed"
                      ELSE "announce_timeout", "drop_broadcast" >>, Now)
            /\ fut' = "ready"
            /\ wake' = Never
            /\ pending' = ""
            /\ sessions' = DropOwn(sessions, Num)
            /\ result' =
                 ErrResult(IF pending = "closed"
                           THEN Msg("consumer closed", 0, "")
                           ELSE Msg("timeout waiting for announcement", 0, ""))
    /\ UNCHANGED << mainVars, timeout_ms, ann_lat, abandoned >>

AsAnnounced ==
    /\ fut = "as_announced"
    /\ Polls(wake, timeout_ms)
    /\ elapsed' = Now
    /\ IF pending = "some"
       THEN /\ trace' = trace \o Stamp(<< "announced", "subscribe_track" >>, Now)
            /\ fut' = "as_track"
            /\ result' = NoResult
            /\ sessions' = sessions
            /\ \E lat \in LatenciesOrNever, what \in {"closed_ok", "closed_err"} :
                \E winner \in Race(lat, TRACK_WAIT) :
                    /\ wake' = Now + RaceTime(winner, lat, TRACK_WAIT)
                    /\ pending' = IF winner = "sleep" THEN "sleep" ELSE what
       ELSE /\ trace' = trace \o Stamp(
                   << IF pending = "none" THEN "unannounced"
                      ELSE IF pending = "closed" THEN "consumer_closed"
                      ELSE "announce_timeout", "drop_broadcast" >>, Now)
            /\ fut' = "ready"
            /\ wake' = Never
            /\ pending' = ""
            /\ sessions' = DropOwn(sessions, Num)
            /\ result' =
                 ErrResult(IF pending = "none"
                           THEN Msg("unexpected unannouncement: {}", 0, TEST_NAMESPACE)
                           ELSE IF pending = "closed"
                           THEN Msg("consumer closed", 0, "")
                           ELSE Msg("timeout waiting for announcement", 0, ""))
    /\ UNCHANGED << mainVars, timeout_ms, ann_lat, abandoned >>

\* test_announce_subscribe lines 323-336
AsTrackDoneWaitFails ==
    /\ fut = "as_track"
    /\ Polls(wake, timeout_ms)
    /\ elapsed' = Now
    /\ IF pending \in {"closed_err", "sleep"}
       THEN /\ trace' = trace \o Stamp(
                   << IF pending = "sleep" THEN "track_wait_over" ELSE "track_error",
                      "drop_broadcast" >>, Now)
            /\ sessions' = DropOwn(sessions, Num)
            /\ result' = ErrResult(Msg("track closed", 0, "track error"))
       ELSE /\ trace' = trace \o Stamp(
                   << "track_closed", "close_pub", "close_sub", "drop_broadcast" >>, Now)
            /\ sessions' = CloseOwn(sessions, Num)
            /\ result' = OkResult
    /\ fut' = "ready"
    /\ wake' = Never
    /\ pending' = ""
    /\ UNCHANGED << mainVars, timeout_ms, ann_lat, abandoned >>

AsTrackDone ==
    /\ fut = "as_track"
    /\ Polls(wake, timeout_ms)
    /\ elapsed' = Now
    /\ IF pending = "closed_err"
       THEN /\ trace' = trace \o Stamp(<< "track_error", "drop_broadcast" >>, Now)
            /\ sessions' = DropOwn(sessions, Num)
            /\ result' = ErrResult(Msg("track closed", 0, "track error"))
       ELSE /\ trace' = trace \o Stamp(
                   << IF pending = "sleep" THEN "track_wait_over" ELSE "track_closed",
                      "close_pub", "close_sub", "drop_broadcast" >>, Now)
            /\ sessions' = CloseOwn(sessions, Num)
            /\ result' = OkResult
    /\ fut' = "ready"
    /\ wake' = Never
    /\ pending' = ""
    /\ UNCHANGED << mainVars, timeout_ms, ann_lat, abandoned >>

Next ==
    \/ ListTests
    \/ UnknownTest
    \/ PrintHeader
    \/ SetupClient
    \/ SkipTest
    \/ StartRunTest
    \/ Deadline
    \/ Report
    \/ Finish
    \/ SetupConnected
    \/ AoConnected
    \/ AoSlept
    \/ PndConnected
    \/ PndSlept500
    \/ PndSlept200
    \/ AsPubConnected
    \/ AsSlept300
    \/ AsSubConnected
    \/ AsAnnounced
    \/ AsTrackDone

Spec == Init /\ [][Next]_vars

(***************************************************************************)
(* Reading the output.                                                     *)
(***************************************************************************)
ResultKinds == {"ok", "not ok", "skip"}
ResultIdx == {k \in 1..Len(out) : out[k].kind \in ResultKinds}
ResultIdxOf(n) == {k \in ResultIdx : out[k].num = n}
PlanIdx == {k \in 1..Len(out) : out[k].kind = "plan"}
HasLine(kind, n) == \E k \in 1..Len(out) : out[k].kind = kind /\ out[k].num = n
OkLine(n) == \E k \in ResultIdxOf(n) : out[k].kind = "ok" /\ out[k].name = tests[n]
NotOkLine(n) == \E k \in ResultIdxOf(n) : out[k].kind = "not ok" /\ out[k].name = tests[n]
\* the message of the diagnostics block under the `not ok n` line
FailContexts(n) ==
    {out[k + 3].msg : k \in {j \in ResultIdxOf(n) : out[j].kind = "not ok" /\ j + 3 <= Len(out)}}
Exited == pc = "exited"
SelectedSize == IF cli.test = << >> THEN Len(TESTS) ELSE 1
HasEv(e) == \E k \in 1..Len(trace) : trace[k].ev = e
EvTimes(e) == {trace[k].at : k \in {j \in 1..Len(trace) : trace[j].ev = e}}
\* the loop has just reported the run of scenario i: trace is that run's
JustReported == pc = "loop" /\ i >= 1 /\ ~IsSkipped(tests[i])

(***************************************************************************)
(* C1.  In every run that emits a count line, when the process has ended   *)
(* the number of result lines equals the size of the selected set (the     *)
(* registry without a selector, 1 with a registered name), the count line  *)
(* carries that number, and each selected scenario has exactly one result  *)
(* line.  The code prints the count line before it parses the relay URL    *)
(* and initialises the client, and ends the run when either fails.         *)
(***************************************************************************)
C1_ResultCountEqualsPlan ==
    (Exited /\ PlanIdx # {}) =>
        /\ Cardinality(ResultIdx) = SelectedSize
        /\ \A k \in PlanIdx : out[k].num = SelectedSize
        /\ \A n \in 1..Len(tests) : Cardinality(ResultIdxOf(n)) = 1

(***************************************************************************)
(* C2.  Once a selection was made, the exit code is 0 iff no outcome is    *)
(* Failed and 1 iff some outcome is Failed; a run whose selected scenarios *)
(* are all skipped exits 0.  The code also exits 1, with no outcome at     *)
(* all, when the relay URL does not parse or the client fails to start.    *)
(***************************************************************************)
C2_ExitCodeIsAndOfOutcomes ==
    (Exited /\ PlanIdx # {}) =>
        /\ exit_code = 0 <=> ~(\E k \in ResultIdx : out[k].kind = "not ok")
        /\ exit_code = 1 <=> (\E k \in ResultIdx : out[k].kind = "not ok")
        /\ (\A n \in 1..Len(tests) : IsSkipped(tests[n])) => exit_code = 0

(***************************************************************************)
(* C3.  A scenario whose orchestration is not over when its timeout (2s    *)
(* for setup-only, announce-only, publish-namespace-done; 3s for           *)
(* announce-subscribe) elapses is reported `not ok` with the message       *)
(* "timeout after <that many>ms"; no orchestration runs past its timeout;  *)
(* once abandoned it takes no further step; and no scenario number ever    *)
(* has two result lines.                                                   *)
(***************************************************************************)
ClaimedTimeout(name) == IF name = "announce-subscribe" THEN 3000 ELSE 2000

C3_Inv ==
    /\ \A n \in abandoned :
        /\ n <= Len(tests)
        /\ ~OkLine(n)
        /\ n <= i =>
            /\ NotOkLine(n)
            /\ FailContexts(n) =
                 {Msg("timeout after {}ms", ClaimedTimeout(tests[n]), "deadline has elapsed")}
    /\ pc = "run_test" =>
        /\ elapsed <= ClaimedTimeout(Name)
        /\ (fut = "dropped") = (Num \in abandoned)
        /\ (fut \in Awaiting /\ wake # Never /\ wake > ClaimedTimeout(Name)) => ~result.set
    /\ \A n \in 1..Len(tests) : Cardinality(ResultIdxOf(n)) <= 1
    /\ \A k \in ResultIdx : out[k].num <= i

C3_Step ==
    fut = "dropped" =>
        \/ /\ trace' = trace
           /\ sessions' = sessions
           /\ fut' = "dropped"
        \/ pc = "loop" /\ pc' = "run_test"

C3_TimeoutIsReportedOnce == [](C3_Inv) /\ [][C3_Step]_vars

C3_Witness ==
    /\ Exited
    /\ Len(tests) = Len(TESTS)
    /\ {1, 5} \subseteq abandoned
    /\ NotOkLine(1)
    /\ NotOkLine(5)

(***************************************************************************)
(* C4 as stated.  In announce-subscribe, if the relay delivers no          *)
(* announcement within 1500ms of the subscriber starting to wait, the      *)
(* scenario is reported `not ok` with "timeout waiting for announcement",  *)
(* whatever the two connect latencies.                                     *)
(***************************************************************************)
AsIdx ==
    LET hits == {n \in 1..Len(tests) : tests[n] = "announce-subscribe"}
    IN  IF hits = {} THEN 0 ELSE CHOOSE n \in hits : TRUE
AsReported == AsIdx # 0 /\ i >= AsIdx
NoAnnouncementInTime ==
    HasEv("wait_announced") /\ (ann_lat = Never \/ ann_lat > 1500)
AnnouncementTimeoutMsg == Msg("timeout waiting for announcement", 0, "")
DeadlineMsg(ms) == Msg("timeout after {}ms", ms, "deadline has elapsed")

C4_AlwaysAnnouncementTimeout ==
    (AsReported /\ NoAnnouncementInTime) =>
        /\ NotOkLine(AsIdx)
        /\ FailContexts(AsIdx) = {AnnouncementTimeoutMsg}

(***************************************************************************)
(* C4 amended.  Under the same condition the scenario is reported          *)
(* `not ok`; the message is "timeout waiting for announcement" when the    *)
(* subscriber starts to wait less than 1500ms into the scenario (the two   *)
(* connect latencies total less than 1200ms), and "timeout after 3000ms"   *)
(* when it starts to wait later than that; at exactly 1500ms either.       *)
(***************************************************************************)
C4_AnnouncementTimeoutUnlessDeadline ==
    (AsReported /\ NoAnnouncementInTime) =>
        /\ NotOkLine(AsIdx)
        /\ ~OkLine(AsIdx)
        /\ \A t \in EvTimes("wait_announced") :
            /\ t < 1500 => FailContexts(AsIdx) = {AnnouncementTimeoutMsg}
            /\ t > 1500 => FailContexts(AsIdx) = {DeadlineMsg(3000)}
            /\ t = 1500 => FailContexts(AsIdx) \subseteq {AnnouncementTimeoutMsg, DeadlineMsg(3000)}

C4_Witness ==
    /\ AsReported
    /\ NoAnnouncementInTime
    /\ FailContexts(AsIdx) = {AnnouncementTimeoutMsg}
    /\ \E t \in EvTimes("wait_announced") : t > 300 /\ t < 1500

(***************************************************************************)
(* C5.  In every run that makes a selection, each selected scenario of the *)
(* skip policy has, when the process has ended, its line                   *)
(* `ok <n> - <name> # SKIP <reason>` with the configured reason, whatever  *)
(* the relay URL.  The code ends the run before the loop when the relay    *)
(* URL does not parse or the client fails to start.                        *)
(***************************************************************************)
ClaimedSkipReason == "moq-lite API requires announcement before subscribe"
ClaimedSkipped == {"subscribe-error", "subscribe-before-announce"}
Selected(name) ==
    IF cli.test = << >> THEN \E k \in 1..Len(TESTS) : TESTS[k] = name
    ELSE cli.test[1] = name
PositionOf(name) ==
    IF cli.test = << >> THEN CHOOSE k \in 1..Len(TESTS) : TESTS[k] = name ELSE 1

C5_SkippedAlwaysReported ==
    (Exited /\ ~cli.list) =>
        \A name \in ClaimedSkipped :
            Selected(name) =>
                \E k \in 1..Len(out) :
                    out[k] = Line("skip", PositionOf(name), name, Msg(ClaimedSkipReason, 0, ""))

(***************************************************************************)
(* C6 as stated.  A selector that names no registry entry makes the        *)
(* process exit with 127, with no count line, no result line, no scenario  *)
(* run and no session, whatever the other flags.                           *)
(***************************************************************************)
RegistryNames == {TESTS[k] : k \in 1..Len(TESTS)}
Unregistered == IF cli.test = << >> THEN FALSE ELSE cli.test[1] \notin RegistryNames
NothingRun ==
    /\ PlanIdx = {}
    /\ ResultIdx = {}
    /\ sessions = << >>
    /\ trace = << >>
    /\ fut = "idle"
    /\ abandoned = {}

C6_UnknownNameExits127 ==
    Unregistered => (NothingRun /\ (Exited => exit_code = 127))

(***************************************************************************)
(* C6 amended.  The same, when list-only mode is not requested (whatever   *)
(* the relay, verbosity and certificate flags); with list-only mode the    *)
(* registry is listed and the exit code is 0, and still nothing is run.    *)
(***************************************************************************)
C6_UnknownNameExits127UnlessList ==
    Unregistered =>
        /\ NothingRun
        /\ ~cli.list => (out = << >> /\ (Exited => exit_code = 127 /\ Len(err) = 1))
        /\ cli.list => (Exited => exit_code = 0 /\ out = ListLines)

C6_Witness == Unregistered /\ ~cli.list /\ Exited /\ exit_code = 127

(***************************************************************************)
(* C7.  A `not ok` outcome never ends the run: the process exits only      *)
(* after the whole selection was gone through, and every scenario after a  *)
(* failed one has its own result line (a SKIP line if it is in the skip    *)
(* policy, `ok` or `not ok` otherwise).                                    *)
(***************************************************************************)
C7_FailureDoesNotAbort ==
    \A n \in 1..Len(tests) :
        NotOkLine(n) =>
            /\ ~all_passed
            /\ Exited =>
                /\ i = Len(tests)
                /\ exit_code = 1
                /\ \A m \in (n + 1)..Len(tests) :
                    /\ Cardinality(ResultIdxOf(m)) = 1
                    /\ \A k \in ResultIdxOf(m) :
                        /\ out[k].name = tests[m]
                        /\ (out[k].kind = "skip") = (tests[m] \in ClaimedSkipped)

C7_Witness ==
    /\ Exited
    /\ Len(tests) = Len(TESTS)
    /\ NotOkLine(1)
    /\ OkLine(2)
    /\ NotOkLine(3)
    /\ HasLine("skip", 4)
    /\ OkLine(5)

(***************************************************************************)
(* C8 as stated.  For setup-only and announce-only the scenario is         *)
(* reported `ok` iff connect returned a session.                           *)
(***************************************************************************)
ConnectOnly == {"setup-only", "announce-only"}

C8_PassedIffConnected ==
    (JustReported /\ tests[i] \in ConnectOnly) =>
        (OkLine(i) <=> HasEv("connected"))

(***************************************************************************)
(* C8 amended.  setup-only is reported `ok` iff connect returned a session *)
(* (which it can only do by the 2s deadline).  announce-only is reported   *)
(* `ok` only if connect returned a session, and then: `ok` when connect    *)
(* returned less than 1500ms into the scenario, `not ok` ("timeout after   *)
(* 2000ms") when it returned later, since the 500ms wait that follows must *)
(* end by the 2s deadline.  A failed connect is reported `not ok`.         *)
(***************************************************************************)
C8_PassedIffConnectedInTime ==
    JustReported =>
        /\ tests[i] \in ConnectOnly =>
            /\ OkLine(i) # NotOkLine(i)
            /\ OkLine(i) => HasEv("connected")
            /\ HasEv("connect_failed") => NotOkLine(i)
        /\ tests[i] = "setup-only" => (OkLine(i) <=> HasEv("connected"))
        /\ tests[i] = "announce-only" =>
            \A t \in EvTimes("connected") :
                /\ t < 1500 => OkLine(i)
                /\ t > 1500 => (NotOkLine(i) /\ FailContexts(i) = {DeadlineMsg(2000)})

C8_Witness ==
    /\ JustReported
    /\ tests[i] = "announce-only"
    /\ NotOkLine(i)
    /\ \E t \in EvTimes("connected") : t > 1500 /\ t < 2000

(***************************************************************************)
(* C9 as stated.  Between scenarios every session opened so far has been   *)
(* closed, on every path of the scenario that opened it.                   *)
(***************************************************************************)
Boundary == pc \in {"loop", "exited"}

C9_EverySessionClosed ==
    Boundary => \A k \in 1..Len(sessions) : sessions[k].state = "closed"

(***************************************************************************)
(* C9 amended.  Between scenarios no session is still held: each was       *)
(* closed with close() if its scenario passed, and dropped without a call  *)
(* to close() if its scenario failed (subscriber connect failure, protocol *)
(* failure, announcement wait timeout, outer deadline).  A session changes *)
(* only while the scenario that opened it runs, and a scenario only opens  *)
(* sessions of its own: none is reused.                                    *)
(***************************************************************************)
C9_Inv ==
    Boundary =>
        \A k \in 1..Len(sessions) :
            /\ sessions[k].num <= i
            /\ sessions[k].state \in {"closed", "dropped"}
            /\ (sessions[k].state = "closed") = OkLine(sessions[k].num)
            /\ (sessions[k].state = "dropped") = NotOkLine(sessions[k].num)

C9_Step ==
    /\ Len(sessions') >= Len(sessions)
    /\ \A k \in 1..Len(sessions) :
        sessions'[k] # sessions[k] =>
            /\ pc = "run_test"
            /\ sessions[k].num = Num
            /\ sessions[k].state = "open"
            /\ sessions'[k] \in {[sessions[k] EXCEPT !.state = "closed"],
                                 [sessions[k] EXCEPT !.state = "dropped"]}
    /\ \A k \in (Len(sessions) + 1)..Len(sessions') :
        /\ pc = "run_test"
        /\ sessions'[k].num = Num

C9_SessionsReleasedNotReused == [](C9_Inv) /\ [][C9_Step]_vars

C9_Witness ==
    /\ Exited
    /\ \E k \in 1..Len(sessions) : sessions[k].state = "closed" /\ sessions[k].role = "subscriber"
    /\ \E k \in 1..Len(sessions) : sessions[k].state = "dropped"

(***************************************************************************)
(* C10.  In announce-subscribe nothing of the subscriber (its connect, its *)
(* session, its wait, an announcement event) happens before the publisher  *)
(* connect has returned and 300ms have passed since.                       *)
(***************************************************************************)
SubscriberEvents ==
    { "sub_connect", "sub_connected", "wait_announced", "announced", "unannounced",
      "consumer_closed", "announce_timeout", "subscribe_track" }

C10_SubscriberAfterPublisherGrace ==
    /\ \A k \in 1..Len(trace) :
        trace[k].ev \in SubscriberEvents =>
            \E j \in 1..(k - 1) :
                /\ trace[j].ev = "pub_connected"
                /\ trace[k].at >= trace[j].at + 300
    /\ \A k \in 1..Len(sessions) :
        sessions[k].role = "subscriber" =>
            /\ k > 1
            /\ sessions[k - 1].role = "publisher"
            /\ sessions[k - 1].num = sessions[k].num
    /\ fut \in {"as_sub_connect", "as_announced", "as_track"} =>
        \E j \in 1..Len(trace) :
            trace[j].ev = "pub_connected" /\ elapsed >= trace[j].at + 300

C10_Witness ==
    /\ HasEv("announced")
    /\ \E t \in EvTimes("pub_connected") : t > 0 /\ EvTimes("sub_connect") = {t + 300}

(***************************************************************************)
(* C11.  When the loop reaches a scenario of the skip policy, its next     *)
(* step prints that scenario's SKIP line and nothing else happens: no      *)
(* session is opened, no deadline is armed, no clock runs, the future and  *)
(* the trace do not move, and the failure flag keeps its value.            *)
(***************************************************************************)
SkipTurn == pc = "loop" /\ i < Len(tests) /\ tests[i + 1] \in ClaimedSkipped

C11_Step ==
    SkipTurn =>
        /\ out' = Append(out, Line("skip", i + 1, tests[i + 1], Msg(ClaimedSkipReason, 0, "")))
        /\ i' = i + 1
        /\ pc' = "loop"
        /\ UNCHANGED << sessions, timeout_ms, elapsed, fut, wake, pending, result, trace,
                        abandoned, ann_lat, duration_ms >>
        /\ UNCHANGED << all_passed, exit_code >>

C11_Inv == SkipTurn => (fut \notin Awaiting /\ ~result.set)

C11_SkipBypassesExecution == [](C11_Inv) /\ [][C11_Step]_vars

C11_Witness ==
    /\ pc = "loop"
    /\ i = 4
    /\ Len(tests) = Len(TESTS)
    /\ HasLine("skip", 4)
    /\ ~all_passed
    /\ OkLine(2)
    /\ Len(sessions) = 2

(***************************************************************************)
(* C12.  Scenarios run one after the other: a future is pending only while *)
(* main awaits run_test for the current scenario, and a scenario starts    *)
(* only when no future is pending and every scenario before it, abandoned  *)
(* ones included, has its result line (the last result line printed being  *)
(* that of the scenario just before).                                      *)
(***************************************************************************)
LastResultNum ==
    IF ResultIdx = {} THEN 0
    ELSE out[CHOOSE k \in ResultIdx : \A m \in ResultIdx : m <= k].num

C12_Inv ==
    /\ fut \in Awaiting => (pc = "run_test" /\ ~result.set)
    /\ pc = "run_test" =>
        /\ \A n \in 1..i : Cardinality(ResultIdxOf(n)) = 1
        /\ ResultIdxOf(i + 1) = {}
        /\ LastResultNum = i
        /\ \A k \in 1..Len(sessions) : sessions[k].state = "open" => sessions[k].num = i + 1

C12_Step ==
    (pc = "loop" /\ pc' = "run_test") =>
        /\ fut \notin Awaiting
        /\ LastResultNum = i
        /\ \A n \in abandoned : n <= i /\ NotOkLine(n)
        /\ i' = i

C12_StrictlySequential == [](C12_Inv) /\ [][C12_Step]_vars

C12_Witness ==
    /\ pc = "run_test"
    /\ fut \in Awaiting
    /\ i = 1
    /\ abandoned = {1}
    /\ NotOkLine(1)

(***************************************************************************)
(* C13.  With the list flag the process prints the six registry names, one *)
(* per line and in registry order, and exits 0; it prints no header and no *)
(* count line, parses no relay URL, opens no session and runs no scenario. *)
(***************************************************************************)
ClaimedRegistry ==
    << "setup-only", "announce-only", "publish-namespace-done",
       "subscribe-error", "announce-subscribe", "subscribe-before-announce" >>

C13_ListOnly ==
    cli.list =>
        /\ NothingRun
        /\ err = << >>
        /\ tests = << >>
        /\ pc \in {"start", "exited"}
        /\ pc = "start" => (out = << >> /\ exit_code = Never)
        /\ Exited =>
            /\ exit_code = 0
            /\ Len(out) = Len(ClaimedRegistry)
            /\ \A k \in 1..Len(out) : out[k].kind = "list" /\ out[k].name = ClaimedRegistry[k]

C13_Witness == cli.list /\ Exited /\ Len(out) = 6 /\ cli.relay = BadRelay

(***************************************************************************)
(* C14.  Output only grows.  In a run that is not list-only the first four *)
(* lines are the version line, two comments and the count line, which is   *)
(* the only count line; the result lines come after it and are numbered    *)
(* 1, 2, ... in the order of the selection, which is in registry order.    *)
(***************************************************************************)
ResultSeq == SelectSeq(out, LAMBDA l : l.kind \in ResultKinds)
IsPrefix(a, b) == Len(a) <= Len(b) /\ \A k \in 1..Len(a) : a[k] = b[k]

C14_Inv ==
    (~cli.list /\ out # << >>) =>
        /\ Len(out) >= 4
        /\ out[1].kind = "version"
        /\ out[2].kind = "comment"
        /\ out[3].kind = "comment"
        /\ PlanIdx = {4}
        /\ out[4].num = Len(tests)
        /\ \A k \in ResultIdx : k > 4
        /\ Len(ResultSeq) = i
        /\ \A k \in 1..Len(ResultSeq) : ResultSeq[k].num = k /\ ResultSeq[k].name = tests[k]
        /\ tests = ClaimedRegistry \/ (Len(tests) = 1 /\ tests[1] \in RegistryNames)

C14_Step == IsPrefix(out, out')

C14_OutputOrdered == [](C14_Inv) /\ [][C14_Step]_vars

C14_Witness ==
    /\ Exited
    /\ Len(ResultSeq) = 6
    /\ \E k \in ResultIdx : out[k].kind = "not ok"
    /\ \E k \in ResultIdx : out[k].kind = "ok"

(***************************************************************************)
(* C15.  In announce-subscribe, when the select! on the subscribed track   *)
(* completes: the 1000ms wait winning gives `ok`, the closed-signal        *)
(* winning with an error gives `not ok` ("track closed"), and the          *)
(* closed-signal winning without an error gives `ok`.                      *)
(***************************************************************************)
TrackClosedMsg == Msg("track closed", 0, "track error")
AsJustReported == JustReported /\ tests[i] = "announce-subscribe"

C15_Step ==
    (fut = "as_track" /\ fut' = "ready") =>
        /\ pending = "sleep" => (result' = OkResult /\ elapsed' = elapsed + 1000)
        /\ pending = "closed_ok" => (result' = OkResult /\ elapsed' <= elapsed + 1000)
        /\ pending = "closed_err" =>
            (result' = ErrResult(TrackClosedMsg) /\ elapsed' <= elapsed + 1000)

C15_Inv ==
    AsJustReported =>
        /\ HasEv("track_wait_over") => (OkLine(i) /\ ~NotOkLine(i))
        /\ HasEv("track_closed") => (OkLine(i) /\ ~NotOkLine(i))
        /\ HasEv("track_error") => (NotOkLine(i) /\ FailContexts(i) = {TrackClosedMsg})
        /\ OkLine(i) => (HasEv("track_wait_over") \/ HasEv("track_closed"))

C15_TrackRaceOutcome == [](C15_Inv) /\ [][C15_Step]_vars

C15_Witness ==
    /\ Exited
    /\ Len(tests) = 1
    /\ tests[1] = "announce-subscribe"
    /\ HasEv("track_wait_over")
    /\ OkLine(1)
    /\ exit_code = 0

(***************************************************************************)
(* C16.  In announce-subscribe, when the announcement event the subscriber *)
(* receives carries no broadcast, the scenario is reported `not ok` with   *)
(* "unexpected unannouncement" and no track is subscribed; a track is      *)
(* subscribed only right after an announcement that carries a broadcast.   *)
(***************************************************************************)
UnannouncedMsg == Msg("unexpected unannouncement: {}", 0, "moq-test/interop")

C16_UnannounceFails ==
    /\ HasEv("unannounced") =>
        /\ ~HasEv("subscribe_track")
        /\ ~HasEv("announced")
        /\ fut = "ready"
        /\ pc = "run_test" => result = ErrResult(UnannouncedMsg)
        /\ AsJustReported => (NotOkLine(i) /\ FailContexts(i) = {UnannouncedMsg})
    /\ \A k \in 1..Len(trace) :
        trace[k].ev = "subscribe_track" =>
            /\ k > 1
            /\ trace[k - 1].ev = "announced"
            /\ trace[k - 1].at = trace[k].at
    /\ fut = "as_track" => HasEv("announced")
    /\ Cardinality({k \in 1..Len(trace) : trace[k].ev = "subscribe_track"}) <= 1

C16_Witness ==
    /\ AsJustReported
    /\ HasEv("unannounced")
    /\ NotOkLine(i)

(***************************************************************************)
(* C17.  In publish-namespace-done every passing run takes these steps in  *)
(* this order: broadcast published, connect, connect returns, 500ms wait,  *)
(* broadcast released (once), 200ms wait, session closed.  In no run is    *)
(* the broadcast released by the body before connect has returned or after *)
(* the session was closed.                                                 *)
(***************************************************************************)
EvNames == [k \in 1..Len(trace) |-> trace[k].ev]
PndJustReported == JustReported /\ tests[i] = "publish-namespace-done"
PndRunning == tests # << >> /\ i < Len(tests) /\ pc = "run_test"
                 /\ tests[i + 1] = "publish-namespace-done"

TimeOf(e) == CHOOSE t \in EvTimes(e) : TRUE
TotalLatency ==
    TimeOf("pub_connected") + (TimeOf("sub_connected") - TimeOf("sub_connect")) + ann_lat
TrackWaitPending == fut = "as_track" /\ pending = "sleep"

C18_Inv ==
    /\ fut = "as_track" =>
        /\ ann_lat # Never
        /\ ann_lat <= 1500
        /\ TimeOf("announced") = TotalLatency + 300
        /\ TrackWaitPending => wake = TotalLatency + 1300
    /\ (AsJustReported /\ HasEv("track_wait_over")) =>
        /\ OkLine(i)
        /\ TotalLatency <= 1700
        /\ duration_ms = TotalLatency + 1300
    /\ (AsJustReported /\ HasEv("subscribe_track") /\ TotalLatency > 1700
          /\ ~HasEv("track_closed") /\ ~HasEv("track_error")) =>
        /\ NotOkLine(i)
        /\ FailContexts(i) = {DeadlineMsg(3000)}
        /\ duration_ms = 3000

C18_Step ==
    (TrackWaitPending /\ fut' # fut) =>
        /\ TotalLatency < 1700 => (fut' = "ready" /\ result' = OkResult)
        /\ TotalLatency > 1700 => (fut' = "dropped" /\ result' = ErrResult(DeadlineMsg(3000)))

C18_BudgetOf1700 == [](C18_Inv) /\ [][C18_Step]_vars

C18_Witness ==
    /\ AsJustReported
    /\ HasEv("subscribe_track")
    /\ ~HasEv("track_closed")
    /\ ~HasEv("track_error")
    /\ TotalLatency > 1700
    /\ ann_lat <= 1500
    /\ FailContexts(i) = {DeadlineMsg(3000)}

(***************************************************************************)
(* C19.  Every registry name is in the skip policy or has its own arm in   *)
(* run_test_inner and in the timeout table of run_test; so in every run    *)
(* the deadline armed is 2000 or 3000, never the default 5000, and no      *)
(* scenario fails with "unknown test".                                     *)
(***************************************************************************)
UnknownTestContext == "unknown test: {}"

C19_DefaultsUnreachable ==
    /\ \A k \in 1..Len(tests) :
        \/ IsSkipped(tests[k])
        \/ FirstAwait(tests[k]) # "bail" /\ TimeoutFor(tests[k]) \in {2000, 3000}
    /\ timeout_ms \in {0, 2000, 3000}
    /\ result.msg.context # UnknownTestContext
    /\ \A k \in 1..Len(out) : out[k].msg.context # UnknownTestContext
    /\ pc = "run_test" =>
        /\ timeout_ms = ClaimedTimeout(tests[i + 1])
        /\ fut \in Awaiting \cup {"ready", "dropped"}
        /\ trace # << >>

C19_Witness ==
    /\ Exited
    /\ Len(tests) = Len(TESTS)
    /\ \A n \in {1, 2, 3, 5} : OkLine(n) \/ NotOkLine(n)
    /\ OkLine(3)
    /\ duration_ms > 2000
====
